---- MODULE Spec2Model ----
(***************************************************************************)
(* The on-device supervisor of nodejs-assets/nodejs-project/main.js: the   *)
(* message handler, the download/install pipeline, the script service and  *)
(* the static service, as a state machine.  One action is one synchronous  *)
(* run of the code between two suspension points of the event loop.        *)
(***************************************************************************)
EXTENDS Integers, Sequences, FiniteSets, TLC

\* ------------------------------------------------------------- bounds
\* messages delivered to the handler in one behaviour
MaxCmds == 3
\* data chunks of one response body
MaxChunks == 1
\* redirects followed by one download
MaxHops == 1
\* services the entry script constructs in one run
MaxCtor == 2
\* handlers suspended at the same time
MaxInFlight == 2
\* how deep an inbound message nests strings, sequences and envelopes
MaxDepth == 4
MaxParts == 2
MaxDownloads == 2
\* calls of NodeController.ensureStarted in one behaviour
MaxCalls == 3
\* calls of NodeController.send and messages of the runtime in one behaviour
MaxPosts == 1

\* ---------------------------------------------------------- constants
NULL == "null"
\* staticServerPort = null, wssController = null, staticServer = null
NoPort == 0
NoHandle == 0
StaticPort == 8321
DEFAULT_REPO == "https://github.com/libnoname/noname.git"
PlainUrl == "https://example.com/bundle.zip"
BadUrl == "not a url"
\* the url and the branch of a set-resource-url payload, "" for none
SetUrls == {PlainUrl, BadUrl, ""}
SetBranches == {"dev", ""}
Timestamp == "2026-01-01T00:00:00.000Z"
Sha == "sha-1"

\* what a 200 response can carry: a bundle with the entry script, a bundle
\* without it, an archive with no entry, bytes that are no archive
Archives == {"zipA", "zipNoScript", "zipEmpty", "zipBad"}
NoSlot == "absent"
\* the installation slot after the archive's root was moved into it
BundleOf(kind) == IF kind = "zipA" THEN "bundleA" ELSE "bundleNoScript"

\* ------------------------------------------------------------- errors
\* err.name and err.message of a thrown value
Err(msg) == [name |-> "Error", message |-> msg]
NoError == [name |-> NULL, message |-> NULL]
\* what the entry script itself may throw: with and without a message
ScriptErrors == {Err("script failed"), Err("")}

VARIABLES
    currentConfig,     \* main.js:442
    metadata,          \* the document at metadataPath, or NoDoc
    slot,              \* the directory at getResourcePath(), or NoSlot
    archive,           \* the file at downloads/resource.zip
    scratch,           \* the directory downloads/extracted exists
    wssController,     \* main.js:447, NoHandle or the captured instance
    wsInstances,       \* the ws.Server instances the entry script constructed
                       \* that are not closed
    staticServer,      \* main.js:448, NoHandle or an http.Server
    staticServerPort,  \* main.js:449
    httpServers,       \* per handler, the listener state of the http.Server it
                       \* created: none, binding, bound, failed
    cmds,              \* one record per message handled: the handler's frame
    sent,              \* what nodejs.channel.send was called with in the step
                       \* just taken, in order
    sentBy,            \* per handler, the types of all the events it sent
    alive,             \* the process has not exited
    last,              \* the step just taken: which handler ran, what it raised
    raw,               \* the message the channel delivered
    data,              \* normalizeMessage(raw), Pending until it ran
    progress,          \* ResourceService.progress, what the application shows
    mirror,            \* ResourceService.state: serverRunning and webServerPort
    ctl                \* the NodeController: its fields, its bridge, its callers

vars == <<currentConfig, metadata, slot, archive, scratch, wssController,
          wsInstances, staticServer, staticServerPort, httpServers, cmds,
          sent, sentBy, alive, last, raw, data, progress, mirror, ctl>>

\* ResourceService.progress is null
NoProgress == <<>>

\* ResourceService.state as constructed, as far as the services go
NoMirror == [serverRunning |-> FALSE, webServerPort |-> NoPort]

\* the NodeController as constructed. started, startPromise and
\* bridgePromise are its fields: startPromise is 0 for null, else the run of
\* startInternal whose promise it holds. bridge tells whether window.nodejs
\* can be acquired. runs holds where each call of startInternal stands,
\* calls the run each call of ensureStarted awaits (0 for none) and how its
\* promise stands. handlers counts the callbacks registered on the channel,
\* starts the calls of bridge.start, posts the calls of send, messages the
\* messages of the runtime; listening tells whether a listener was added,
\* delivered how often the last message reached it
NoController ==
    [started |-> FALSE, startPromise |-> 0, bridgePromise |-> "null",
     bridge |-> FALSE, runs |-> <<>>, calls |-> <<>>, handlers |-> 0,
     starts |-> 0, posts |-> 0, messages |-> 0, listening |-> FALSE,
     delivered |-> 0]

\* ----------------------------------------------------- configuration
DefaultConfig == [resourceUrl |-> DEFAULT_REPO, branch |-> "main", version |-> NULL]
NoDoc == [resourceUrl |-> NULL, branch |-> NULL, version |-> NULL]
\* a document an earlier run of the program saved
SavedDoc == [resourceUrl |-> PlainUrl, branch |-> "dev", version |-> Timestamp]

\* a document that names the repository and no branch
NoBranchDoc == [resourceUrl |-> DEFAULT_REPO, branch |-> "", version |-> NULL]

\* loadMetadata: the defaults, overwritten by the document when there is one
loadMetadata(doc) == IF doc = NoDoc THEN DefaultConfig ELSE doc

\* ------------------------------------------------------------ events
NoState == [resourceUrl |-> NULL, branch |-> NULL, version |-> NULL,
            hasResources |-> FALSE, serverRunning |-> FALSE, webServerPort |-> NoPort]

Ev(type, by) == [type |-> type, by |-> by, state |-> NoState, port |-> NoPort,
                 context |-> NULL, message |-> NULL, downloaded |-> 0, total |-> 0]

\* stateSnapshot, over the globals given
Snapshot(cfg, sl, wss, port) ==
    [resourceUrl |-> cfg.resourceUrl, branch |-> cfg.branch, version |-> cfg.version,
     hasResources |-> (sl # NoSlot), serverRunning |-> (wss # NoHandle),
     webServerPort |-> port]

stateSnapshot == Snapshot(currentConfig, slot, wssController, staticServerPort)

StateEv(type, by, snap) == [Ev(type, by) EXCEPT !.state = snap]
PortEv(by, port) == [Ev("web-started", by) EXCEPT !.port = port]
\* a progress event that reports the length of the chunk
ProgressEvChunk(by, d, t) == [Ev("download-progress", by) EXCEPT !.downloaded = 1, !.total = t]

ProgressEv(by, d, t) == [Ev("download-progress", by) EXCEPT !.downloaded = d, !.total = t]

\* String(err) for an Error: its name alone when the message is empty
StringOf(err) == IF err.message = "" THEN err.name ELSE err.name \o ": " \o err.message

\* sendError: err?.message || String(err)
ErrorMessage(err) == IF err.message # "" THEN err.message ELSE StringOf(err)

sendError(err, context, by) ==
    [Ev("error", by) EXCEPT !.context = context, !.message = ErrorMessage(err)]

\* saveMetadata: the write may fail; the failure is logged and swallowed
saveMetadata(cfg, ok) == IF ok THEN cfg ELSE metadata

\* ---------------------------------------------------------- locators
\* url.endsWith(".git")
EndsWithGit(url) == url = DEFAULT_REPO
\* repoUrl.match(/github.com\/(.+?)\/(.+?)(?:\.git)?$/)
GitHubMatch(url) == url = DEFAULT_REPO
Owner(url) == "libnoname"
Repo(url) == "noname"
\* a new URL(url) that accepts anything
ParsesAsUrlAny(url) == TRUE

\* new URL(url) does not throw
ParsesAsUrl(url) == url # BadUrl

\* an artifact URL that always names the branch main
CodeloadMain(owner, repo, branch) ==
    "https://codeload.github.com/" \o owner \o "/" \o repo \o "/zip/refs/heads/main"

Codeload(owner, repo, branch) ==
    "https://codeload.github.com/" \o owner \o "/" \o repo \o "/zip/refs/heads/" \o branch
\* the endpoints fetchJson is called on: the repository (for its default
\* branch) and the head commit of a branch
RepoApi(owner, repo) == "https://api.github.com/repos/" \o owner \o "/" \o repo
CommitsApi(owner, repo, branch) ==
    "https://api.github.com/repos/" \o owner \o "/" \o repo \o "/commits/" \o branch

\* a lookup whose result is taken as it is
DefaultBranchRaw(found) == found

\* resolveBranch's then/catch: found is json.default_branch, "" when the
\* request failed, the body was no JSON or had no string default_branch
DefaultBranch(found) == IF found = "" THEN "main" ELSE found

\* ------------------------------------------------------- archive file
\* st: absent, empty, partial, complete, mixed (bytes of two streams);
\* ino: the file behind the path; by: the stream that last truncated it
NoFile == [st |-> "absent", ino |-> <<0, 0>>, by |-> 0, kind |-> NULL]

\* fs.createWriteStream(destinationPath) by handler i on its hop-th
\* redirect: a new file when the path is absent, else the same file truncated
OpenArchive(i, hop) ==
    [st |-> "empty", ino |-> IF archive.st = "absent" THEN <<i, hop>> ELSE archive.ino,
     by |-> i, kind |-> NULL]

\* one chunk piped by handler i into the file its stream holds
WriteArchive(i, ino) ==
    IF archive.st = "absent" \/ archive.ino # ino THEN archive
    ELSE IF archive.by = i /\ archive.st \in {"empty", "partial"}
         THEN [archive EXCEPT !.st = "partial"]
         ELSE [archive EXCEPT !.st = "mixed"]

\* the stream of handler i finishes: the file holds the whole body when no
\* other stream touched it
FinishArchive(i, ino, body) ==
    IF archive.st \in {"empty", "partial"} /\ archive.ino = ino /\ archive.by = i
    THEN [archive EXCEPT !.st = "complete", !.kind = body]
    ELSE archive

\* ------------------------------------------------------------- frames
\* api is the endpoint a suspended lookup is waiting for
Frame(type) == [type |-> type, pc |-> "done", url |-> NULL, branch |-> NULL,
                version |-> NULL, hop |-> 0, downloaded |-> 0, total |-> 0,
                ino |-> <<0, 0>>, srv |-> NoHandle, api |-> NULL]

Step(i, err) == [cmd |-> i, raised |-> err]

\* ----------------------------------------------------------- messages
\* JavaScript values, k being the kind: what the bridge can deliver
Null == [k |-> "null"]
Undefined == [k |-> "undefined"]
Num(n) == [k |-> "num", n |-> n]
Bool(b) == [k |-> "bool", b |-> b]
\* no value: what JSON.parse throws on
NotJson == [k |-> "notjson"]
\* a string that is no JSON text
Str(text) == [k |-> "str", text |-> text, json |-> NotJson]
\* JSON.stringify(v): the string that JSON.parse turns into v
Json(v) == [k |-> "str", text |-> "json", json |-> v]
Arr(items) == [k |-> "arr", items |-> items]
\* an object with these three properties, Undefined for one it lacks
Obj(type, event, payload) ==
    [k |-> "obj", type |-> type, event |-> event, payload |-> payload]
\* the payload of set-resource-url
UrlObj(url, branch) == [k |-> "urlobj", url |-> url, branch |-> branch]
Envelope(payload) == Obj(Undefined, Str("message"), payload)
\* data before normalizeMessage ran
Pending == [k |-> "pending"]

\* typeof v
TypeOf(v) ==
    CASE v.k \in {"null", "obj", "arr", "urlobj"} -> "object"
      [] v.k = "str" -> "string"
      [] v.k = "num" -> "number"
      [] v.k = "bool" -> "boolean"
      [] OTHER -> "undefined"

\* !!v
Truthy(v) ==
    CASE v.k \in {"null", "undefined"} -> FALSE
      [] v.k = "num" -> v.n # 0
      [] v.k = "str" -> v.text # ""
      [] v.k = "bool" -> v.b
      [] OTHER -> TRUE

IsArray(v) == v.k = "arr"
\* v[field] of a non-null value, field being type, event or payload
Get(v, field) == IF v.k = "obj" THEN v[field] ELSE Undefined
\* v === text
Is(v, text) == v.k = "str" /\ v.text = text
\* a destructuring that looks into a nested sequence
FirstFlat(items) ==
    IF items = <<>> THEN Undefined
    ELSE IF items[1].k = "arr" /\ items[1].items # <<>> THEN items[1].items[1]
    ELSE items[1]

\* const [first] = items
First(items) == IF items = <<>> THEN Undefined ELSE items[1]

\* a safeParse that gives back the string it cannot parse
safeParseLoose(candidate) ==
    IF TypeOf(candidate) # "string" THEN Null
    ELSE IF candidate.json = NotJson THEN candidate
    ELSE candidate.json

\* safeParse
safeParse(candidate) ==
    IF TypeOf(candidate) # "string" THEN Null
    ELSE IF candidate.json = NotJson THEN Null
    ELSE candidate.json

\* what both normalizeMessage and extractEnvelopePayload make of the first
\* element of a sequence
Unwrapped(first) ==
    IF Truthy(first) /\ TypeOf(first) = "object" THEN first
    ELSE IF TypeOf(first) = "string" THEN safeParse(first)
    ELSE Null

\* an extractEnvelopePayload that finds nothing
extractEnvelopePayloadNone(payload) == Null

\* extractEnvelopePayload
extractEnvelopePayload(payload) ==
    IF ~Truthy(payload) THEN Null
    ELSE LET values == IF IsArray(payload) THEN payload
                       ELSE IF TypeOf(payload) = "string" THEN safeParse(payload)
                       ELSE Null
         IN  IF ~Truthy(values) \/ ~IsArray(values) \/ values.items = <<>> THEN Null
             ELSE Unwrapped(First(values.items))

\* normalizeMessage
normalizeMessage(r) ==
    IF ~Truthy(r) THEN Null
    ELSE IF TypeOf(r) = "object" /\ ~IsArray(r)
    THEN IF Is(Get(r, "event"), "message")
         THEN LET payload == Get(r, "payload")
              IN  extractEnvelopePayload(IF payload.k = "undefined" THEN Null
                                         ELSE payload)
         ELSE r
    ELSE IF IsArray(r) THEN Unwrapped(First(r.items))
    ELSE IF TypeOf(r) = "string"
    THEN LET parsed == safeParse(r)
         IN  IF Truthy(parsed) /\ TypeOf(parsed) = "object"
             THEN IF Is(Get(parsed, "event"), "message")
                  THEN LET envelopePayload ==
                               extractEnvelopePayload(Get(parsed, "payload"))
                       IN  IF Truthy(envelopePayload) THEN envelopePayload ELSE parsed
                  ELSE parsed
             ELSE Null
    ELSE Null

\* --------------------------------------------------------------- start
\* the process after the module ran: ensureDirectories, loadMetadata, ready
Boot ==
    /\ \E doc \in {NoDoc, SavedDoc, NoBranchDoc} :
        /\ metadata = doc
        /\ currentConfig = loadMetadata(doc)
        /\ slot = IF doc = SavedDoc THEN "bundleA" ELSE NoSlot
    /\ archive = NoFile
    /\ scratch = FALSE
    /\ wssController = NoHandle
    /\ wsInstances = <<>>
    /\ staticServer = NoHandle
    /\ staticServerPort = NoPort
    /\ httpServers = [k \in 1..MaxCmds |-> "none"]
    /\ cmds = <<>>
    /\ sent = <<StateEv("ready", 0, Snapshot(currentConfig, slot, NoHandle, NoPort))>>
    /\ sentBy = <<>>
    /\ alive = TRUE
    /\ last = Step(0, NoError)

\* the commands reach the switch already normalized
Init ==
    /\ Boot
    /\ raw = Null
    /\ data = Pending
    /\ progress = NoProgress
    /\ mirror = NoMirror
    /\ ctl = NoController

Normalized == UNCHANGED <<raw, data, progress, mirror, ctl>>

Only(e) == << e >>

\* a handler that returned or whose error was caught holds nothing any more:
\* its frame is dropped once another step has been taken
Settled(frame) == frame.pc \in {"done", "failed"}
Gone == Frame("gone")
Live == [k \in DOMAIN cmds |-> IF Settled(cmds[k]) THEN Gone ELSE cmds[k]]

InFlight == {k \in DOMAIN cmds : ~Settled(cmds[k])}
CanReceive == alive /\ Len(cmds) < MaxCmds
\* a command whose handler suspends arrives while fewer than MaxInFlight do
CanSuspend == Cardinality(InFlight) < MaxInFlight
Me == Len(cmds) + 1

\* the types of the events sent, in order
Types(evs) == [k \in 1..Len(evs) |-> evs[k].type]

\* sentBy after handler i sent evs; what a settled handler sent is dropped
\* with its frame
Record(i, evs) ==
    LET kept == [k \in DOMAIN sentBy |-> IF Settled(cmds[k]) THEN <<>> ELSE sentBy[k]]
    IN  IF i > Len(sentBy) THEN Append(kept, Types(evs))
        ELSE [kept EXCEPT ![i] = @ \o Types(evs)]

\* the step's events are added to what its handler sent
Logged == sentBy' = Record(last'.cmd, sent')

\* a get-state that also forgets the installed version
GetStateForgetful ==
    /\ CanReceive
    /\ cmds' = Append(Live, Frame("get-state"))
    /\ sent' = Only(StateEv("state", Me, stateSnapshot))
    /\ last' = Step(Me, NoError)
    /\ currentConfig' = [currentConfig EXCEPT !.version = NULL]
    /\ UNCHANGED <<metadata, slot, archive, scratch, wssController,
                   wsInstances, staticServer, staticServerPort, httpServers, alive>>
    /\ Logged

\* case "get-state"
GetState ==
    /\ CanReceive
    /\ cmds' = Append(Live, Frame("get-state"))
    /\ sent' = Only(StateEv("state", Me, stateSnapshot))
    /\ last' = Step(Me, NoError)
    /\ UNCHANGED <<currentConfig, metadata, slot, archive, scratch, wssController,
                   wsInstances, staticServer, staticServerPort, httpServers, alive>>
    /\ Logged

\* case "set-resource-url": url and branch are "" when the payload has none
SetResourceUrl(url, branch, saved) ==
    /\ CanReceive
    /\ cmds' = Append(Live, Frame("set-resource-url"))
    /\ IF url # ""
       THEN LET cfg == [currentConfig EXCEPT
                          !.resourceUrl = url,
                          !.branch = IF branch # "" THEN branch ELSE @]
            IN  /\ currentConfig' = cfg
                /\ metadata' = saveMetadata(cfg, saved)
                /\ sent' = Only(StateEv("state", Me,
                                 Snapshot(cfg, slot, wssController, staticServerPort)))
       ELSE /\ sent' = <<>>
            /\ UNCHANGED <<currentConfig, metadata>>
    /\ last' = Step(Me, NoError)
    /\ UNCHANGED <<slot, archive, scratch, wssController, wsInstances, staticServer,
                   staticServerPort, httpServers, alive>>
    /\ Logged

\* ------------------------------------------------------ script service
\* an existsSync that finds the entry script anywhere
HasServerScriptAnywhere(sl) == TRUE

\* the entry script exists at <slot>/game/server.js
HasServerScript(sl) == sl = "bundleA"

\* vm.runInContext: the script constructs n services through the wrapped
\* constructor, each recorded in capturedServer, the last one kept
RunScript(n) == wsInstances \o [k \in 1..n |-> "live"]
\* a capturedServer that is set whether or not the constructor was called
CapturedFirst(n) == Len(wsInstances) + 1

Captured(n) == IF n = 0 THEN NoHandle ELSE Len(wsInstances) + n

\* startWsServer past its guard; n services constructed, then the script
\* throws thrown (NoError when it runs to completion)
runServerScript(i, n, thrown) ==
    IF ~HasServerScript(slot)
    THEN /\ last' = Step(i, Err("server.js not found in resources"))
         /\ sent' = Only(sendError(last'.raised, "start-server", i))
         /\ UNCHANGED <<wssController, wsInstances>>
    ELSE /\ wsInstances' = RunScript(n)
         /\ IF thrown # NoError
            THEN /\ last' = Step(i, thrown)
                 /\ sent' = Only(sendError(thrown, "start-server", i))
                 /\ UNCHANGED wssController
            ELSE IF Captured(n) = NoHandle
            THEN /\ last' = Step(i, Err("Failed to start WebSocket server"))
                 /\ sent' = Only(sendError(last'.raised, "start-server", i))
                 /\ UNCHANGED wssController
            ELSE /\ wssController' = Captured(n)
                 /\ last' = Step(i, NoError)
                 /\ sent' =
                      << Ev("server-started", i),
                         StateEv("state", i, Snapshot(currentConfig, slot,
                                                      Captured(n), staticServerPort)) >>

\* startWsServer that runs the entry script whether or not a handle is held
startWsServerAgain(i, n, thrown) == runServerScript(i, n, thrown)

\* startWsServer: returns at once when a handle is held
startWsServer(i, n, thrown) ==
    IF wssController # NoHandle
    THEN /\ last' = Step(i, NoError)
         /\ sent' = <<>>
         /\ UNCHANGED <<wssController, wsInstances>>
    ELSE runServerScript(i, n, thrown)

\* case "start-server"
StartServer ==
    /\ CanReceive
    /\ \E n \in 0..MaxCtor, thrown \in ScriptErrors \cup {NoError} :
         startWsServer(Me, n, thrown)
    /\ cmds' = Append(Live, [Frame("start-server") EXCEPT
                   !.pc = IF last'.raised = NoError THEN "done" ELSE "failed"])
    /\ UNCHANGED <<currentConfig, metadata, slot, archive, scratch, staticServer,
                   staticServerPort, httpServers, alive>>
    /\ Logged

\* wssController.close(): capturedServer.close() may throw; the handle is
\* cleared either way
wssClose(closed) ==
    IF closed
    THEN SubSeq(wsInstances, 1, wssController - 1)
            \o SubSeq(wsInstances, wssController + 1, Len(wsInstances))
    ELSE wsInstances

\* stopWsServer: the instances and the events it leaves, port being the
\* value of staticServerPort when it runs
stopWsInstances(closed) ==
    IF wssController = NoHandle THEN wsInstances ELSE wssClose(closed)

\* a stopWsServer that reports nothing
stopWsEventsNone(i, port) == <<>>

stopWsEvents(i, port) ==
    IF wssController = NoHandle THEN <<>>
    ELSE << Ev("server-stopped", i),
            StateEv("state", i, Snapshot(currentConfig, slot, NoHandle, port)) >>

\* case "stop-server"
StopServer ==
    /\ CanReceive
    /\ cmds' = Append(Live, Frame("stop-server"))
    /\ \E closed \in BOOLEAN :
         /\ wsInstances' = stopWsInstances(closed)
         /\ sent' = stopWsEvents(Me, staticServerPort)
    /\ wssController' = NoHandle
    /\ last' = Step(Me, NoError)
    /\ UNCHANGED <<currentConfig, metadata, slot, archive, scratch, staticServer,
                   staticServerPort, httpServers, alive>>
    /\ Logged

\* ------------------------------------------------------ static service
\* staticServer.close(), after which nothing refers to the server: a bound
\* listener is released unless close throws, one still binding goes on
\* binding, one that failed to bind is garbage
httpClose(closed) ==
    LET st == httpServers[staticServer]
    IN  IF (st = "bound" /\ closed) \/ st = "failed"
        THEN [httpServers EXCEPT ![staticServer] = "none"]
        ELSE httpServers

\* stopStaticServer
stopStaticServers(closed) ==
    IF staticServer = NoHandle THEN httpServers ELSE httpClose(closed)

\* stopStaticServer that reports web-stopped whether or not a server is held
stopStaticEventsAlways(i) == << Ev("web-stopped", i) >>

stopStaticEvents(i) ==
    IF staticServer = NoHandle THEN <<>> ELSE << Ev("web-stopped", i) >>

\* case "stop-web"
StopWeb ==
    /\ CanReceive
    /\ cmds' = Append(Live, Frame("stop-web"))
    /\ \E closed \in BOOLEAN : httpServers' = stopStaticServers(closed)
    /\ sent' = stopStaticEvents(Me)
    /\ staticServer' = NoHandle
    /\ staticServerPort' = NoPort
    /\ last' = Step(Me, NoError)
    /\ UNCHANGED <<currentConfig, metadata, slot, archive, scratch, wssController,
                   wsInstances, alive>>
    /\ Logged

\* startStaticServer past its guard, up to its await
createStaticServer(i) ==
    IF slot = NoSlot
    THEN /\ last' = Step(i, Err("Resources not downloaded"))
         /\ sent' = Only(sendError(last'.raised, "start-web", i))
         /\ cmds' = Append(Live, [Frame("start-web") EXCEPT !.pc = "failed"])
         /\ UNCHANGED <<staticServer, staticServerPort, httpServers>>
    ELSE /\ staticServerPort' = StaticPort
         /\ httpServers' = [httpServers EXCEPT ![i] = "binding"]
         /\ staticServer' = i
         /\ cmds' = Append(Live, [Frame("start-web") EXCEPT
                                    !.pc = "listen", !.srv = i])
         /\ last' = Step(i, NoError)
         /\ sent' = <<>>

\* startStaticServer that creates a server whether or not one is held
startStaticServerAgain(i) == createStaticServer(i)

\* startStaticServer: sends the port again when a server is held
startStaticServer(i) ==
    IF staticServer # NoHandle
    THEN /\ sent' = Only(PortEv(i, staticServerPort))
         /\ cmds' = Append(Live, Frame("start-web"))
         /\ last' = Step(i, NoError)
         /\ UNCHANGED <<staticServer, staticServerPort, httpServers>>
    ELSE createStaticServer(i)

\* case "start-web"
StartWeb ==
    /\ CanReceive
    /\ CanSuspend
    /\ startStaticServer(Me)
    /\ UNCHANGED <<currentConfig, metadata, slot, archive, scratch, wssController,
                   wsInstances, alive>>
    /\ Logged

\* the port is free for this process: none of its listeners holds it
PortFree == \A k \in DOMAIN httpServers : httpServers[k] # "bound"

\* the listen promise settles: resolve on "listening", reject on "error"
ListenSettles(i, bound) ==
    /\ alive
    /\ cmds[i].pc = "listen"
    /\ bound => PortFree
    /\ IF bound
       THEN /\ httpServers' = [httpServers EXCEPT ![cmds[i].srv] = "bound"]
            /\ sent' = Only(PortEv(i, staticServerPort))
            /\ cmds' = [Live EXCEPT ![i].pc = "done"]
            /\ last' = Step(i, NoError)
       ELSE /\ httpServers' = [httpServers EXCEPT ![cmds[i].srv] =
                                   IF staticServer = cmds[i].srv THEN "failed" ELSE "none"]
            /\ last' = Step(i, Err("listen EADDRINUSE"))
            /\ sent' = Only(sendError(last'.raised, "start-web", i))
            /\ cmds' = [Live EXCEPT ![i].pc = "failed"]
    /\ UNCHANGED <<currentConfig, metadata, slot, archive, scratch, wssController,
                   wsInstances, staticServer, staticServerPort, alive>>
    /\ Logged

\* ------------------------------------------------- download pipeline
\* a handler's frame after it raised: the catch of the message handler ran
Failed(i) == [Live EXCEPT ![i].pc = "failed"]

\* the catch block: sendError(err, data?.type)
Catch(i, err, before) ==
    /\ last' = Step(i, err)
    /\ sent' = before \o << sendError(err, "download-resources", i) >>

\* downloadToFile(url, archivePath) up to the request, by the handler whose
\* frame is frame: new URL(url) throws for a locator that is no URL, else
\* the write stream is opened.  frames are the handlers' frames, before the
\* events the step sent before the call
downloadToFile(i, frames, frame, before) ==
    IF ~ParsesAsUrl(frame.url)
    THEN /\ Catch(i, Err("Invalid URL"), before)
         /\ cmds' = [frames EXCEPT ![i] = [frame EXCEPT !.pc = "failed", !.api = NULL]]
         /\ UNCHANGED archive
    ELSE /\ archive' = OpenArchive(i, frame.hop)
         /\ cmds' = [frames EXCEPT ![i] = [frame EXCEPT
                        !.pc = "request", !.ino = OpenArchive(i, frame.hop).ino,
                        !.url = NULL, !.branch = NULL, !.api = NULL]]
         /\ sent' = before
         /\ last' = Step(i, NoError)

\* case "download-resources": handleDownload up to its first suspension.
\* resolveSource answers at once for a locator that is no repository; for a
\* repository it waits for the default branch (no branch configured) or
\* for the revision
DownloadResources ==
    /\ CanReceive
    /\ CanSuspend
    /\ LET url == currentConfig.resourceUrl
           fallback == currentConfig.branch
           started == << Ev("download-started", Me) >>
           frame == [Frame("download-resources") EXCEPT !.url = url]
           frames == Append(Live, frame)
       IN  IF EndsWithGit(url) /\ GitHubMatch(url)
           THEN /\ IF fallback # ""
                   THEN cmds' = [frames EXCEPT
                                   ![Me].pc = "revision", ![Me].branch = fallback,
                                   ![Me].url = Codeload(Owner(url), Repo(url), fallback),
                                   ![Me].api = CommitsApi(Owner(url), Repo(url), fallback)]
                   ELSE cmds' = [frames EXCEPT
                                   ![Me].pc = "branch",
                                   ![Me].api = RepoApi(Owner(url), Repo(url))]
                /\ sent' = started
                /\ last' = Step(Me, NoError)
                /\ UNCHANGED <<currentConfig, archive>>
           ELSE LET branch == IF fallback # "" THEN fallback ELSE "main"
                IN  /\ currentConfig' = [currentConfig EXCEPT !.branch = branch]
                    /\ downloadToFile(Me, frames, [frame EXCEPT !.branch = branch], started)
    /\ UNCHANGED <<metadata, slot, scratch, wssController, wsInstances, staticServer,
                   staticServerPort, httpServers, alive>>
    /\ Logged

\* resolveBranch settles: json.default_branch when the lookup gave a string,
\* "main" otherwise; the revision lookup starts
BranchSettles(i, found) ==
    /\ alive
    /\ cmds[i].pc = "branch"
    /\ LET branch == DefaultBranch(found)
           url == cmds[i].url
       IN  cmds' = [Live EXCEPT ![i].pc = "revision", ![i].branch = branch,
                                ![i].url = Codeload(Owner(url), Repo(url), branch),
                                ![i].api = CommitsApi(Owner(url), Repo(url), branch)]
    /\ last' = Step(i, NoError)
    /\ sent' = <<>>
    /\ UNCHANGED <<currentConfig, metadata, slot, archive, scratch, wssController,
                   wsInstances, staticServer, staticServerPort, httpServers,
                   alive>>
    /\ Logged

\* the revision lookup settles (sha is NULL when it failed or gave none):
\* resolveSource resolves, handleDownload sets the branch and starts the
\* download
RevisionSettles(i, sha) ==
    /\ alive
    /\ cmds[i].pc = "revision"
    /\ currentConfig' = [currentConfig EXCEPT !.branch = cmds[i].branch]
    /\ downloadToFile(i, Live, [cmds[i] EXCEPT !.version = sha], <<>>)
    /\ UNCHANGED <<metadata, slot, scratch, wssController, wsInstances, staticServer,
                   staticServerPort, httpServers, alive>>
    /\ Logged

\* the request of downloadToFile fails: the destination is removed
RequestError(i) ==
    /\ alive
    /\ cmds[i].pc = "request"
    /\ archive' = NoFile
    /\ cmds' = Failed(i)
    /\ Catch(i, Err("socket hang up"), <<>>)
    /\ UNCHANGED <<currentConfig, metadata, slot, scratch, wssController, wsInstances,
                   staticServer, staticServerPort, httpServers, alive>>
    /\ Logged

\* a redirect that leaves the file of the hop in place
RedirectKeepsFile(i) ==
    /\ alive
    /\ cmds[i].pc = "request"
    /\ cmds[i].hop < MaxHops
    /\ archive' = OpenArchive(i, cmds[i].hop + 1)
    /\ cmds' = [Live EXCEPT ![i].hop = @ + 1, ![i].ino = OpenArchive(i, cmds[i].hop + 1).ino]
    /\ last' = Step(i, NoError)
    /\ sent' = <<>>
    /\ UNCHANGED <<currentConfig, metadata, slot, scratch, wssController, wsInstances,
                   staticServer, staticServerPort, httpServers, alive>>
    /\ Logged

\* a 3xx response with a Location: the stream is closed, the file removed
\* and downloadToFile called again on the new URL
Redirect(i) ==
    /\ alive
    /\ cmds[i].pc = "request"
    /\ cmds[i].hop < MaxHops
    /\ LET fresh == [st |-> "empty", ino |-> <<i, cmds[i].hop + 1>>, by |-> i,
                     kind |-> NULL]
       IN  /\ archive' = fresh
           /\ cmds' = [Live EXCEPT ![i].hop = @ + 1, ![i].ino = fresh.ino]
    /\ last' = Step(i, NoError)
    /\ sent' = <<>>
    /\ UNCHANGED <<currentConfig, metadata, slot, scratch, wssController, wsInstances,
                   staticServer, staticServerPort, httpServers, alive>>
    /\ Logged

\* a response with status >= 400
StatusError(i) ==
    /\ alive
    /\ cmds[i].pc = "request"
    /\ cmds' = Failed(i)
    /\ Catch(i, Err("Download failed with status 404"), <<>>)
    /\ UNCHANGED <<currentConfig, metadata, slot, archive, scratch, wssController,
                   wsInstances, staticServer, staticServerPort, httpServers, alive>>
    /\ Logged

\* a 2xx response: total is the content-length, 0 when there is none
ResponseOk(i, total) ==
    /\ alive
    /\ cmds[i].pc = "request"
    /\ cmds' = [Live EXCEPT ![i].pc = "body", ![i].total = total, ![i].hop = 0]
    /\ last' = Step(i, NoError)
    /\ sent' = <<>>
    /\ UNCHANGED <<currentConfig, metadata, slot, archive, scratch, wssController,
                   wsInstances, staticServer, staticServerPort, httpServers,
                   alive>>
    /\ Logged

\* res.on("data"): one chunk of one byte, of a body of parts chunks
onData(i, parts) ==
    /\ alive
    /\ cmds[i].pc = "body"
    /\ cmds[i].downloaded < parts
    /\ cmds' = [Live EXCEPT ![i].downloaded = @ + 1]
    /\ sent' = Only(ProgressEv(i, cmds[i].downloaded + 1, cmds[i].total))
    /\ archive' = WriteArchive(i, cmds[i].ino)
    /\ last' = Step(i, NoError)
    /\ UNCHANGED <<currentConfig, metadata, slot, scratch, wssController, wsInstances,
                   staticServer, staticServerPort, httpServers, alive>>
    /\ Logged

Chunk(i) == onData(i, MaxChunks)

\* fileStream "error" (the disk is full, say): the stream has no listener
\* for it, so the error is thrown out of the event loop and the process
\* dies, its handlers, services and listeners with it; the files stay
StreamError(i) ==
    /\ alive
    /\ cmds[i].pc = "body"
    /\ alive' = FALSE
    /\ cmds' = [k \in DOMAIN cmds |-> Gone]
    /\ wssController' = NoHandle
    /\ wsInstances' = <<>>
    /\ staticServer' = NoHandle
    /\ staticServerPort' = NoPort
    /\ httpServers' = [k \in DOMAIN httpServers |-> "none"]
    /\ last' = Step(i, Err("ENOSPC: no space left on device, write"))
    /\ sent' = <<>>
    /\ UNCHANGED <<currentConfig, metadata, slot, archive, scratch>>
    /\ Logged

\* fileStream "finish": the body, which was the archive body, was written
\* and the stream is being closed
onFinish(i, body, parts) ==
    /\ alive
    /\ cmds[i].pc = "body"
    /\ cmds[i].downloaded = parts
    /\ archive' = FinishArchive(i, cmds[i].ino, body)
    /\ cmds' = [Live EXCEPT ![i].pc = "closing", ![i].downloaded = 0, ![i].total = 0]
    /\ last' = Step(i, NoError)
    /\ sent' = <<>>
    /\ UNCHANGED <<currentConfig, metadata, slot, scratch, wssController, wsInstances,
                   staticServer, staticServerPort, httpServers, alive>>
    /\ Logged

Finish(i, body) == onFinish(i, body, MaxChunks)

\* version || new Date().toISOString()
InstalledVersionNoFallback(version) == version
InstalledVersionStamped(version) == Timestamp

InstalledVersion(version) == IF version # NULL THEN version ELSE Timestamp

\* an AdmZip that opens whatever the file holds
ReadableAny(file) == TRUE

\* new AdmZip(archivePath) reads the file: only a complete archive opens
Readable(file) == file.st = "complete" /\ file.kind # "zipBad"
\* fs.readdirSync(tempDir) after extractAllTo
HasEntries(file) == file.kind # "zipEmpty"

\* unpackResource that moves the new root in only when no slot exists
swapSlotKeep(sl, root) == IF sl = NoSlot THEN root ELSE sl

\* a swap that removes the slot and leaves the move to a later step
swapSlotLater(sl, root) == NoSlot

\* unpackResource's swap: the slot sl, when it exists, is removed, then the
\* extracted root is renamed to it
swapSlot(sl, root) == root

\* the stream is closed: downloadToFile resolves, unpackResource runs, the
\* version is set, the configuration saved and download-complete sent
Install(i, renamed, saved) ==
    /\ alive
    /\ cmds[i].pc = "closing"
    /\ IF ~Readable(archive)
       THEN /\ scratch' = TRUE
            /\ cmds' = Failed(i)
            /\ Catch(i, Err("Invalid or unsupported zip format"), <<>>)
            /\ UNCHANGED <<slot, archive, currentConfig, metadata>>
       ELSE IF ~HasEntries(archive)
       THEN /\ scratch' = TRUE
            /\ cmds' = Failed(i)
            /\ Catch(i, Err("Archive did not contain any files"), <<>>)
            /\ UNCHANGED <<slot, archive, currentConfig, metadata>>
       ELSE IF ~renamed
       THEN /\ scratch' = TRUE
            /\ slot' = NoSlot
            /\ cmds' = Failed(i)
            /\ Catch(i, Err("rename failed"), <<>>)
            /\ UNCHANGED <<archive, currentConfig, metadata>>
       ELSE LET cfg == [currentConfig EXCEPT
                          !.version = InstalledVersion(cmds[i].version)]
            IN  /\ slot' = swapSlot(slot, BundleOf(archive.kind))
                /\ archive' = NoFile
                /\ scratch' = FALSE
                /\ currentConfig' = cfg
                /\ metadata' = saveMetadata(cfg, saved)
                /\ cmds' = [Live EXCEPT ![i].pc = "done"]
                /\ sent' = Only(StateEv("download-complete", i,
                        Snapshot(cfg, slot', wssController, staticServerPort)))
                /\ last' = Step(i, NoError)
    /\ UNCHANGED <<wssController, wsInstances, staticServer, staticServerPort,
                   httpServers, alive>>
    /\ Logged

\* a shutdown that stops the services and goes on running
ShutdownNoExit ==
    /\ CanReceive
    /\ cmds' = Append(Live, Frame("shutdown"))
    /\ \E closedWeb \in BOOLEAN, closedWs \in BOOLEAN :
         /\ httpServers' = stopStaticServers(closedWeb)
         /\ wsInstances' = stopWsInstances(closedWs)
    /\ sent' = stopStaticEvents(Me) \o stopWsEvents(Me, NoPort)
    /\ staticServer' = NoHandle
    /\ staticServerPort' = NoPort
    /\ wssController' = NoHandle
    /\ alive' = TRUE
    /\ last' = Step(Me, NoError)
    /\ UNCHANGED <<currentConfig, metadata, slot, archive, scratch>>
    /\ Logged

\* case "shutdown": stopStaticServer(); stopWsServer(); process.exit(0)
Shutdown ==
    /\ CanReceive
    /\ cmds' = Append(Live, Frame("shutdown"))
    /\ \E closedWeb \in BOOLEAN, closedWs \in BOOLEAN :
         /\ httpServers' = stopStaticServers(closedWeb)
         /\ wsInstances' = stopWsInstances(closedWs)
    /\ sent' = stopStaticEvents(Me) \o stopWsEvents(Me, NoPort)
    /\ staticServer' = NoHandle
    /\ staticServerPort' = NoPort
    /\ wssController' = NoHandle
    /\ alive' = FALSE
    /\ last' = Step(Me, NoError)
    /\ UNCHANGED <<currentConfig, metadata, slot, archive, scratch>>
    /\ Logged

\* default: a type the switch does not know
Unhandled ==
    /\ CanReceive
    /\ cmds' = Append(Live, Frame("unknown"))
    /\ last' = Step(Me, NoError)
    /\ sent' = <<>>
    /\ UNCHANGED <<currentConfig, metadata, slot, archive, scratch, wssController,
                   wsInstances, staticServer, staticServerPort, httpServers,
                   alive>>
    /\ Logged

Next ==
    \/ GetState /\ Normalized
    \/ \E url \in SetUrls, branch \in SetBranches, saved \in BOOLEAN :
         SetResourceUrl(url, branch, saved) /\ Normalized
    \/ DownloadResources /\ Normalized
    \/ \E i \in DOMAIN cmds, found \in {"", "dev"} :
         BranchSettles(i, found) /\ Normalized
    \/ \E i \in DOMAIN cmds, sha \in {NULL, Sha} :
         RevisionSettles(i, sha) /\ Normalized
    \/ \E i \in DOMAIN cmds :
         RequestError(i) /\ Normalized
    \/ \E i \in DOMAIN cmds :
         Redirect(i) /\ Normalized
    \/ \E i \in DOMAIN cmds :
         StatusError(i) /\ Normalized
    \/ \E i \in DOMAIN cmds, total \in {0, MaxChunks} :
         ResponseOk(i, total) /\ Normalized
    \/ \E i \in DOMAIN cmds :
         Chunk(i) /\ Normalized
    \/ \E i \in DOMAIN cmds :
         StreamError(i) /\ Normalized
    \/ \E i \in DOMAIN cmds, body \in Archives :
         Finish(i, body) /\ Normalized
    \/ \E i \in DOMAIN cmds, renamed \in BOOLEAN, saved \in BOOLEAN :
         Install(i, renamed, saved) /\ Normalized
    \/ StartServer /\ Normalized
    \/ StopServer /\ Normalized
    \/ StartWeb /\ Normalized
    \/ \E i \in DOMAIN cmds, bound \in BOOLEAN :
         ListenSettles(i, bound) /\ Normalized
    \/ StopWeb /\ Normalized
    \/ Shutdown /\ Normalized
    \/ Unhandled /\ Normalized

Spec == Init /\ [][Next]_vars

\* ---------------------------------------------- the message handler
\* if (!data || typeof data !== "object") return
Returned(d) == ~Truthy(d) \/ TypeOf(d) # "object"

\* the handler returns before the switch
Ignored ==
    /\ CanReceive
    /\ cmds' = Append(Live, Frame("ignored"))
    /\ last' = Step(Me, NoError)
    /\ sent' = <<>>
    /\ UNCHANGED <<currentConfig, metadata, slot, archive, scratch, wssController,
                   wsInstances, staticServer, staticServerPort, httpServers,
                   alive>>
    /\ Logged

\* a payload whose branch is never read
PayloadFieldNoBranch(d, field) ==
    LET payload == Get(d, "payload")
    IN  IF payload.k = "urlobj" /\ field = "url" THEN payload[field] ELSE ""

\* data.payload.url and data.payload.branch, "" when there is none
PayloadField(d, field) ==
    LET payload == Get(d, "payload")
    IN  IF payload.k = "urlobj" THEN payload[field] ELSE ""

\* switch (data.type)
Switch(d, saved) ==
    LET type == Get(d, "type")
    IN  IF Is(type, "get-state") THEN GetState
        ELSE IF Is(type, "set-resource-url")
        THEN SetResourceUrl(PayloadField(d, "url"), PayloadField(d, "branch"), saved)
        ELSE IF Is(type, "download-resources") THEN DownloadResources
        ELSE IF Is(type, "start-server") THEN StartServer
        ELSE IF Is(type, "stop-server") THEN StopServer
        ELSE IF Is(type, "start-web") THEN StartWeb
        ELSE IF Is(type, "stop-web") THEN StopWeb
        ELSE IF Is(type, "shutdown") THEN Shutdown
        ELSE Unhandled

\* nodejs.channel.on("message"): the message is normalized, then ignored or
\* dispatched; saved tells whether a write of the configuration succeeds
Handle(saved) ==
    /\ data = Pending
    /\ data' = normalizeMessage(raw)
    /\ UNCHANGED <<raw, progress, mirror, ctl>>
    /\ IF Returned(data') THEN Ignored ELSE Switch(data', saved)

\* the messages: commands, values that are no command, and strings,
\* sequences and envelopes of them, nested d deep
GetStateCmd == Obj(Str("get-state"), Undefined, Undefined)
SetUrlCmd == Obj(Str("set-resource-url"), Undefined, UrlObj(PlainUrl, "dev"))
SetUrlOnlyCmd == Obj(Str("set-resource-url"), Undefined, UrlObj(PlainUrl, ""))
Commands == {GetStateCmd, SetUrlCmd}
Atoms ==
    Commands \cup {SetUrlOnlyCmd} \cup
    { Null, Num(0), Num(5), Bool(TRUE), Str(""), Str("not json"),
      Obj(Str("ping"), Undefined, Undefined),
      Obj(Undefined, Undefined, Undefined),
      Obj(Num(5), Undefined, Undefined) }

Wrapped(V) ==
    {Json(v) : v \in V} \cup {Arr(<< v >>) : v \in V} \cup {Envelope(v) : v \in V}

RECURSIVE Values(_)
Values(d) ==
    IF d = 0 THEN Atoms
    ELSE Atoms \cup {Arr(<<>>), Envelope(Undefined)} \cup Wrapped(Values(d - 1))

\* one message delivered to the process just started
MessageInit ==
    /\ Boot
    /\ raw \in Values(MaxDepth)
    /\ data = Pending
    /\ progress = NoProgress
    /\ mirror = NoMirror
    /\ ctl = NoController

MessageNext == \E saved \in BOOLEAN : Handle(saved)

MessageSpec == MessageInit /\ [][MessageNext]_vars

\* ------------------------------------------------- the progress shown
\* ResourceService.updateProgress: the payload of download-progress
updateProgress(ev) == << ev.downloaded, ev.total >>

\* ResourceService.handleNodeMessage, as far as progress goes
handleNodeMessage(p, ev) ==
    IF ev.type = "download-progress" THEN updateProgress(ev)
    ELSE IF ev.type = "download-started" THEN << 0, 0 >>
    ELSE IF ev.type = "download-complete" THEN NoProgress
    ELSE p

\* the events of a step, handled in the order they were sent
RECURSIVE Shown(_, _)
Shown(p, evs) ==
    IF evs = <<>> THEN p ELSE Shown(handleNodeMessage(p, Head(evs)), Tail(evs))

\* the service handles what the step sent
Served == progress' = Shown(progress, sent') /\ UNCHANGED <<raw, data, mirror, ctl>>

\* ResourceService.downloadResources: the progress is dropped and the
\* command sent
downloadResources ==
    /\ Len(cmds) < MaxDownloads
    /\ DownloadResources
    /\ progress' = Shown(NoProgress, sent')
    /\ UNCHANGED <<raw, data, mirror, ctl>>

\* MaxDownloads downloads of bodies of MaxParts chunks, and the service
\* that shows their progress
ServiceNext ==
    \/ downloadResources
    \/ \E i \in DOMAIN cmds, found \in {"", "dev"} :
         BranchSettles(i, found) /\ Served
    \/ \E i \in DOMAIN cmds, sha \in {NULL, Sha} :
         RevisionSettles(i, sha) /\ Served
    \/ \E i \in DOMAIN cmds :
         RequestError(i) /\ Served
    \/ \E i \in DOMAIN cmds :
         Redirect(i) /\ Served
    \/ \E i \in DOMAIN cmds :
         StatusError(i) /\ Served
    \/ \E i \in DOMAIN cmds, total \in {0, MaxParts} :
         ResponseOk(i, total) /\ Served
    \/ \E i \in DOMAIN cmds :
         onData(i, MaxParts) /\ Served
    \/ \E i \in DOMAIN cmds :
         StreamError(i) /\ Served
    \/ \E i \in DOMAIN cmds, body \in Archives :
         onFinish(i, body, MaxParts) /\ Served
    \/ \E i \in DOMAIN cmds, renamed \in BOOLEAN, saved \in BOOLEAN :
         Install(i, renamed, saved) /\ Served

ServiceSpec == Init /\ [][ServiceNext]_vars

\* the steps of the download handler i: a response, an error, a chunk, the
\* end of the body, the close of the stream
Pipeline(i) ==
    \/ \E found \in {"", "dev"} : BranchSettles(i, found) /\ Served
    \/ \E sha \in {NULL, Sha} : RevisionSettles(i, sha) /\ Served
    \/ RequestError(i) /\ Served
    \/ Redirect(i) /\ Served
    \/ StatusError(i) /\ Served
    \/ \E total \in {0, MaxParts} : ResponseOk(i, total) /\ Served
    \/ onData(i, MaxParts) /\ Served
    \/ StreamError(i) /\ Served
    \/ \E body \in Archives : onFinish(i, body, MaxParts) /\ Served
    \/ \E renamed \in BOOLEAN, saved \in BOOLEAN : Install(i, renamed, saved) /\ Served

\* every request is answered or fails and the event loop runs every
\* callback that is due: no handler waits for ever for its next step
Fairness == \A i \in 1..MaxDownloads : WF_vars(i \in DOMAIN cmds /\ Pipeline(i))

FairServiceSpec == ServiceSpec /\ Fairness

\* ------------------------------------------------ the state mirrored
\* ResourceService.updateState, as far as the services go: a field of the
\* payload is taken when it has the type expected, else the old one kept
updateState(m, snap) ==
    [serverRunning |-> snap.serverRunning,
     webServerPort |-> IF snap.webServerPort # NoPort
                       THEN snap.webServerPort ELSE m.webServerPort]

\* ResourceService.handleNodeMessage, as far as the services go
updateMirror(m, ev) ==
    IF ev.type \in {"ready", "state", "download-complete"}
    THEN updateState(m, ev.state)
    ELSE IF ev.type = "server-started" THEN [m EXCEPT !.serverRunning = TRUE]
    ELSE IF ev.type = "server-stopped" THEN [m EXCEPT !.serverRunning = FALSE]
    ELSE IF ev.type = "web-started"
    THEN IF ev.port # NoPort THEN [m EXCEPT !.webServerPort = ev.port] ELSE m
    ELSE IF ev.type = "web-stopped" THEN [m EXCEPT !.webServerPort = NoPort]
    ELSE m

\* the events of a step, delivered in the order they were sent
RECURSIVE Mirrored(_, _)
Mirrored(m, evs) ==
    IF evs = <<>> THEN m ELSE Mirrored(updateMirror(m, Head(evs)), Tail(evs))

\* every event of the step is delivered before the next step
Delivered == mirror' = Mirrored(mirror, sent') /\ UNCHANGED <<raw, data, progress, ctl>>

\* the process has started and its ready event was delivered
MirrorInit ==
    /\ Boot
    /\ raw = Null
    /\ data = Pending
    /\ progress = NoProgress
    /\ mirror = Mirrored(NoMirror, sent)
    /\ ctl = NoController

\* the commands of the two services, with get-state, each event delivered
MirrorNext ==
    \/ GetState /\ Delivered
    \/ StartServer /\ Delivered
    \/ StopServer /\ Delivered
    \/ StartWeb /\ Delivered
    \/ \E i \in DOMAIN cmds, bound \in BOOLEAN :
         ListenSettles(i, bound) /\ Delivered
    \/ StopWeb /\ Delivered

MirrorSpec == MirrorInit /\ [][MirrorNext]_vars

\* --------------------------------------------------- the controller
\* everything but the controller
Host == <<currentConfig, metadata, slot, archive, scratch, wssController,
          wsInstances, staticServer, staticServerPort, httpServers, cmds,
          sent, sentBy, alive, last, raw, data, progress, mirror>>

\* a controller whose ensureStarted never joins a start under way
JoinsNever(c) == FALSE

\* ensureStarted: if (this.startPromise) return this.startPromise
Joins(c) == c.startPromise # 0

\* a controller whose catch keeps the rejected promise
CaughtKeeps(c) == c

\* ensureStarted's catch: this.startPromise = null, and the error thrown on
Caught(c) == [c EXCEPT !.startPromise = 0]

\* how the promise of a run stands for a caller that awaits it
Awaited(run) ==
    IF run = "done" THEN "resolved"
    ELSE IF run = "failed" THEN "rejected" ELSE "waiting"

\* the callers that await run r settle as the run did
Settle(calls, r, how) ==
    [k \in DOMAIN calls |->
        IF calls[k].run = r /\ calls[k].state = "waiting"
        THEN [calls[k] EXCEPT !.state = how] ELSE calls[k]]

\* resolveBridge as called by c: the bridge at hand resolves at once, else
\* the wait is created unless one is under way
resolveBridge(c) ==
    IF c.bridge \/ c.bridgePromise # "null" THEN c
    ELSE [c EXCEPT !.bridgePromise = "pending"]

\* NodeController.ensureStarted: return when started, join a start under
\* way, else call startInternal, which runs up to its await of the bridge
ensureStarted ==
    /\ Len(ctl.calls) < MaxCalls
    /\ IF ctl.started
       THEN ctl' = [ctl EXCEPT !.calls = Append(@, [run |-> 0, state |-> "resolved"])]
       ELSE IF Joins(ctl)
       THEN ctl' = [ctl EXCEPT !.calls =
                Append(@, [run |-> ctl.startPromise,
                           state |-> Awaited(ctl.runs[ctl.startPromise])])]
       ELSE LET r == Len(ctl.runs) + 1
                c == resolveBridge(ctl)
            IN  ctl' = [c EXCEPT
                    !.runs = Append(@, IF c.bridge THEN "ready" ELSE "pending"),
                    !.startPromise = r,
                    !.calls = Append(@, [run |-> r, state |-> "waiting"])]
    /\ UNCHANGED Host

\* NodeController.send, up to its await of the bridge
send ==
    /\ ctl.posts < MaxPosts
    /\ ctl' = [resolveBridge(ctl) EXCEPT !.posts = @ + 1]
    /\ UNCHANGED Host

\* NodeController.on: the ResourceService adds its listener
on ==
    /\ ~ctl.listening
    /\ ctl' = [ctl EXCEPT !.listening = TRUE]
    /\ UNCHANGED Host

\* the plugin has loaded: window.nodejs, or cordova.require, gives the bridge
BridgeLoads ==
    /\ ~ctl.bridge
    /\ ctl' = [ctl EXCEPT !.bridge = TRUE]
    /\ UNCHANGED Host

\* waitForBridge's attempt finds the bridge: the wait resolves, and every
\* startInternal that awaits it is ready to go on
attempt ==
    /\ ctl.bridgePromise = "pending"
    /\ ctl.bridge
    /\ ctl' = [ctl EXCEPT
            !.bridgePromise = "fulfilled",
            !.runs = [r \in DOMAIN @ |-> IF @[r] = "pending" THEN "ready" ELSE @[r]]]
    /\ UNCHANGED Host

\* waitForBridge's attempt after BRIDGE_TIMEOUT_MS without a bridge: the
\* wait rejects, resolveBridge's catch clears bridgePromise, and every
\* startInternal that awaits it is about to throw
Timeout ==
    /\ ctl.bridgePromise = "pending"
    /\ ~ctl.bridge
    /\ ctl' = [ctl EXCEPT
            !.bridgePromise = "null",
            !.runs = [r \in DOMAIN @ |-> IF @[r] = "pending" THEN "failing" ELSE @[r]]]
    /\ UNCHANGED Host

\* startInternal after its await: the handler is registered on the
\* channel, main.js started, started set; the callers are resolved. The
\* plugin's channel.on and start return without throwing
startInternal(r) ==
    /\ ctl.runs[r] = "ready"
    /\ ctl' = [ctl EXCEPT
            !.handlers = @ + 1,
            !.starts = @ + 1,
            !.started = TRUE,
            !.runs[r] = "done",
            !.calls = Settle(@, r, "resolved")]
    /\ UNCHANGED Host

\* startInternal's await throws: ensureStarted's catch runs, the callers
\* are rejected
StartFails(r) ==
    /\ ctl.runs[r] = "failing"
    /\ ctl' = [Caught(ctl) EXCEPT
            !.runs[r] = "failed",
            !.calls = Settle(@, r, "rejected")]
    /\ UNCHANGED Host

\* the runtime, once started, posts a message: each handler registered
\* hands it to the listener
Message ==
    /\ ctl.starts > 0
    /\ ctl.messages < MaxPosts
    /\ ctl' = [ctl EXCEPT
            !.messages = @ + 1,
            !.delivered = IF ctl.listening THEN ctl.handlers ELSE 0]
    /\ UNCHANGED Host

ControllerNext ==
    \/ ensureStarted
    \/ send
    \/ on
    \/ BridgeLoads
    \/ attempt
    \/ Timeout
    \/ \E r \in DOMAIN ctl.runs : startInternal(r)
    \/ \E r \in DOMAIN ctl.runs : StartFails(r)
    \/ Message

ControllerSpec == Init /\ [][ControllerNext]_vars

\* ============================================================ claims
\* the process state: everything but the handlers' frames and what was sent
process == <<currentConfig, metadata, slot, archive, scratch, wssController,
             wsInstances, staticServer, staticServerPort, httpServers, alive>>

\* the step taken receives a command of this type
Received(type) == Len(cmds') = Len(cmds) + 1 /\ cmds'[Len(cmds')].type = type

\* the handler that took the last step
Stepper == cmds[last.cmd]

Count(evs, type) == Cardinality({k \in DOMAIN evs : evs[k].type = type})

\* a download handler that holds a write stream on the archive path
Streaming(k) ==
    /\ cmds[k].type = "download-resources"
    /\ cmds[k].pc \in {"request", "body", "closing"}

\* ---- C1
\* C1, as claimed: while the handler of an earlier command is suspended, no
\* later command sends an event.
C1_NoLaterEffect ==
    \A i \in InFlight : last.cmd > i => sent = <<>>

\* ---- C2
\* C2, as claimed: serverRunning is reported true exactly when a service the
\* entry script constructed through the wrapped constructor is live.
C2_RunningIffLive ==
    stateSnapshot.serverRunning <=> wsInstances # <<>>

\* ---- C3
\* C3, as claimed: the reported webServerPort is non-null exactly when a
\* static listener is bound to the port.
C3_PortIffBound ==
    (stateSnapshot.webServerPort # NoPort) <=>
        (\E k \in DOMAIN httpServers : httpServers[k] = "bound")

\* ---- C4
\* C4, as claimed: when start-web fails because the listener cannot bind,
\* staticServer and staticServerPort are null as before the command.
C4_BindFailureLeavesStopped ==
    (last.raised = Err("listen EADDRINUSE")) =>
        (staticServer = NoHandle /\ staticServerPort = NoPort)

\* ---- C5
\* C5: a start-server received while the script service is running sends
\* nothing, constructs no service and keeps the handle; and whenever
\* server-started is sent it is sent once, by a step that found the service
\* stopped and left one handle captured.
C5_StartServerIdempotent ==
    [][ /\ (Received("start-server") /\ wssController # NoHandle) =>
             (sent' = <<>> /\ last'.raised = NoError /\ UNCHANGED process)
        /\ Count(sent', "server-started") > 0 =>
             /\ Count(sent', "server-started") = 1
             /\ wssController = NoHandle
             /\ wssController' # NoHandle
             /\ wsInstances'[wssController'] = "live" ]_vars

\* a start-server returned at once because the service was running
C5_Witness ==
    /\ last.cmd > 0
    /\ Stepper.type = "start-server"
    /\ last.raised = NoError
    /\ sent = <<>>
    /\ wssController # NoHandle

\* ---- C6
\* C6: stop-server received with no captured handle, and stop-web received
\* with no static server, send nothing, raise nothing and leave the process
\* state as it was.
C6_StopWhenStoppedIsNoOp ==
    [][ /\ (Received("stop-server") /\ wssController = NoHandle) =>
             (sent' = <<>> /\ last'.raised = NoError /\ UNCHANGED process)
        /\ (Received("stop-web") /\ staticServer = NoHandle) =>
             (sent' = <<>> /\ last'.raised = NoError /\ UNCHANGED process) ]_vars

\* a stop-web was handled while the static service was stopped
C6_Witness ==
    /\ last.cmd > 1
    /\ Stepper.type = "stop-web"
    /\ sent = <<>>
    /\ last.raised = NoError
    /\ staticServer = NoHandle

\* ---- C7
\* C7: a start-web received while the static service is running (the
\* listener of staticServer is bound) sends web-started with the current
\* port and nothing else, raises nothing, creates no listener and leaves
\* the process state as it was.
C7_StartWebWhenRunning ==
    [][ (/\ Received("start-web")
         /\ staticServer # NoHandle
         /\ httpServers[staticServer] = "bound") =>
            /\ sent' = << PortEv(Len(cmds'), staticServerPort) >>
            /\ staticServerPort = StaticPort
            /\ last'.raised = NoError
            /\ cmds'[Len(cmds')].pc = "done"
            /\ UNCHANGED process ]_vars

\* a start-web found the service running and sent the port again
C7_Witness ==
    /\ last.cmd > 0
    /\ Stepper.type = "start-web"
    /\ Stepper.srv = NoHandle
    /\ Stepper.pc = "done"
    /\ Count(sent, "web-started") = 1
    /\ httpServers[staticServer] = "bound"

\* ---- C8
\* C8, as claimed: at most one download pipeline holds the temp archive
\* path at any time.
C8_OnePipeline ==
    \A i, j \in DOMAIN cmds : (Streaming(i) /\ Streaming(j)) => i = j

\* ---- C9
\* C9, as claimed: every error raised while a command is handled is caught
\* and answered by exactly one error event, the last event of the step,
\* whose context is the type of the command; the process stays alive.
C9_NoErrorEscapes ==
    (last.raised # NoError) =>
        /\ alive
        /\ Count(sent, "error") = 1
        /\ sent[Len(sent)].type = "error"
        /\ sent[Len(sent)].context = Stepper.type

\* ---- C10
\* the events of one download so far: download-started first, then only
\* download-progress, then at most one terminal event
Ordered(log) ==
    /\ log # <<>>
    /\ log[1] = "download-started"
    /\ \A k \in 2..Len(log) :
         \/ log[k] = "download-progress"
         \/ k = Len(log) /\ log[k] \in {"download-complete", "error"}

C12_SlotHoldsNewRoot ==
    [][ Count(sent', "download-complete") > 0 =>
            /\ archive.st = "complete"
            /\ slot' = BundleOf(archive.kind)
            /\ scratch' = FALSE
            /\ archive' = NoFile
            /\ sent'[1].state.hasResources ]_vars

\* the process started with an installed bundle that has the entry script;
\* its first command installed a bundle without it
C12_Witness ==
    /\ Len(cmds) = 1
    /\ cmds[1].type = "download-resources"
    /\ cmds[1].pc = "done"
    /\ currentConfig.resourceUrl = PlainUrl
    /\ currentConfig.branch = "dev"
    /\ slot = "bundleNoScript"
    /\ ~scratch

\* ---- C13
\* C13, as claimed: after downloadToFile rejects on a response status, the
\* destination file is complete or absent.
C13_CompleteOrAbsent ==
    (last.raised = Err("Download failed with status 404")) =>
        archive.st \in {"absent", "complete"}

\* ---- C14
\* handler i is resolving a repository locator
Resolving(frames, i) ==
    i \in DOMAIN frames /\ frames[i].pc \in {"branch", "revision"}

\* C14: the step that completes a download sets the version to the revision
\* id its handler obtained, else to the timestamp, never to null, and sends
\* a state with that version and hasResources true.  A handler obtains a
\* revision id only from the revision lookup, which only the handler of a
\* repository locator starts: for any other locator the version is the
\* timestamp.
C14_VersionNeverNull ==
    [][ /\ Count(sent', "download-complete") > 0 =>
             /\ currentConfig'.version # NULL
             /\ currentConfig'.version =
                    (IF cmds[last'.cmd].version = Sha THEN Sha ELSE Timestamp)
             /\ sent'[1].state.version = currentConfig'.version
             /\ sent'[1].state.hasResources
        /\ \A i \in DOMAIN cmds' :
             /\ cmds'[i].version # NULL =>
                  /\ cmds'[i].version = Sha
                  /\ i \in DOMAIN cmds
                  /\ cmds[i].version = Sha \/ cmds[i].pc = "revision"
             /\ (Resolving(cmds', i) /\ ~Resolving(cmds, i)) =>
                  /\ Received("download-resources")
                  /\ i = Len(cmds')
                  /\ EndsWithGit(currentConfig.resourceUrl) ]_vars

\* a download of the repository completed with the revision id it looked up
C14_Witness ==
    /\ last.cmd > 0
    /\ Stepper.type = "download-resources"
    /\ Count(sent, "download-complete") = 1
    /\ sent[1].state.version = Sha
    /\ currentConfig.resourceUrl = DEFAULT_REPO

\* ------------------------------------------------ claims on messages
\* the handler of the message ran
Handled == data.k # "pending"

\* the value carries a string discriminator
HasStringType(d) == TypeOf(Get(d, "type")) = "string"

\* ---- C15
\* the five inbound shapes of command c
FiveShapes(c) ==
    { c, Json(c), Arr(<< c >>), Arr(<< Json(c) >>), Envelope(Arr(<< c >>)) }

\* C15: each of the five shapes of a command normalizes to the command
\* itself and is dispatched to the command's case: get-state sends the
\* state and changes nothing, set-resource-url sets the url and the branch
\* of its payload and sends the new state.
C15_FiveShapesOneCommand ==
    \A c \in Commands :
        (Handled /\ raw \in FiveShapes(c)) =>
            /\ data = c
            /\ cmds[1].type = c.type.text
            /\ last.raised = NoError
            /\ sent = << StateEv("state", 1, stateSnapshot) >>
            /\ IF c = GetStateCmd
               THEN currentConfig = loadMetadata(metadata)
               ELSE /\ currentConfig.resourceUrl = c.payload.url
                    /\ currentConfig.branch = c.payload.branch

\* the envelope around a sequence holding get-state was handled as get-state
C15_Witness ==
    /\ raw = Envelope(Arr(<< GetStateCmd >>))
    /\ data = GetStateCmd
    /\ Count(sent, "state") = 1

\* ---- C16
Malformed ==
    { Null, Str(""), Arr(<<>>), Str("not json"), Arr(<< Str("not json") >>),
      Num(0), Num(5), Bool(TRUE) }

\* C16: a malformed, empty or unparsable message normalizes to null; its
\* handler returns before the switch, sends nothing, raises nothing and
\* changes no state.
C16_MalformedIsDropped ==
    [][ (raw \in Malformed) =>
            /\ data' = Null
            /\ cmds'[1].type = "ignored"
            /\ sent' = <<>>
            /\ last'.raised = NoError
            /\ UNCHANGED process ]_vars

\* a string that is no JSON was dropped
C16_Witness ==
    /\ raw = Str("not json")
    /\ data = Null
    /\ sent = <<>>
    /\ cmds[1].type = "ignored"

\* ---- C17
\* C17, as claimed: the JSON string of a sequence whose first element is
\* the command or its JSON string normalizes to the command.
C17_EncodedSequence ==
    \A c \in Commands :
        (Handled /\ raw \in {Json(Arr(<< c >>)), Json(Arr(<< Json(c) >>))}) =>
            data = c

\* ---- C18
\* the accepted forms of an envelope's payload carrying command c
PayloadForms(c) ==
    { c, Arr(<< c >>), Arr(<< Json(c) >>),
      Json(c), Json(Arr(<< c >>)), Json(Arr(<< Json(c) >>)) }

\* C18, as claimed: an envelope normalizes to the command its payload
\* carries, for every accepted form of the payload.
C18_EnvelopeOfEveryForm ==
    \A c \in Commands :
        (Handled /\ raw \in {Envelope(P) : P \in PayloadForms(c)}) => data = c

\* ---- C19
\* inputs from which no string discriminator can be obtained
NoDiscriminator ==
    { Obj(Undefined, Undefined, Undefined), Obj(Num(5), Undefined, Undefined),
      Arr(<< Arr(<< GetStateCmd >>) >>), Json(Num(5)) }

\* C19, as claimed: such an input normalizes to null.
C19_NothingWithoutDiscriminator ==
    (Handled /\ raw \in NoDiscriminator) => data = Null

\* C19, amended: such an input normalizes to null or to a value without a
\* string discriminator; and whatever normalizes to a value without one is
\* dispatched to no command: nothing is sent, nothing raised, no state
\* changed.
C19_NoCommandWithoutDiscriminator ==
    [][ /\ (raw \in NoDiscriminator) => ~HasStringType(data')
        /\ ~HasStringType(data') =>
             /\ cmds'[1].type \in {"ignored", "unknown"}
             /\ sent' = <<>>
             /\ last'.raised = NoError
             /\ UNCHANGED process ]_vars

\* a sequence inside a sequence came out as the inner sequence and reached
\* the default case of the switch
C19_Witness ==
    /\ raw = Arr(<< Arr(<< GetStateCmd >>) >>)
    /\ data = Arr(<< GetStateCmd >>)
    /\ cmds[1].type = "unknown"
    /\ sent = <<>>

\* ---- C20
\* C20: start-server received while the service is stopped and the entry
\* script exists.  When the script constructed one service and did not
\* throw, the handle of that service is recorded and server-started is
\* sent, followed by the state with serverRunning true.  When the script
\* ran to completion having constructed none, the command fails with one
\* error event of context start-server, server-started is not sent and the
\* handle stays null.
C20_StartNeedsCapturedService ==
    [][ (/\ Received("start-server")
         /\ wssController = NoHandle
         /\ HasServerScript(slot)
         /\ last'.raised \notin ScriptErrors) =>
            /\ Len(wsInstances') = Len(wsInstances) + 1 =>
                 /\ last'.raised = NoError
                 /\ wssController' = Len(wsInstances')
                 /\ wsInstances'[wssController'] = "live"
                 /\ Types(sent') = << "server-started", "state" >>
                 /\ sent'[2].state.serverRunning
            /\ wsInstances' = wsInstances =>
                 /\ last'.raised = Err("Failed to start WebSocket server")
                 /\ Types(sent') = << "error" >>
                 /\ sent'[1].context = "start-server"
                 /\ sent'[1].message = "Failed to start WebSocket server"
                 /\ wssController' = NoHandle
                 /\ cmds'[Len(cmds')].pc = "failed" ]_vars

\* the entry script ran to completion without constructing a service
C20_Witness ==
    /\ last.cmd > 0
    /\ Stepper.type = "start-server"
    /\ last.raised = Err("Failed to start WebSocket server")
    /\ wssController = NoHandle
    /\ wsInstances = <<>>
    /\ Count(sent, "server-started") = 0

\* ---- C21
\* C21: stop-server received while a handle is held clears the handle and
\* sends server-stopped, then the state with serverRunning false, whether
\* or not closing the service threw; it sends no error event and raises
\* nothing.
C21_StopServerAlwaysStops ==
    [][ (Received("stop-server") /\ wssController # NoHandle) =>
            /\ wssController' = NoHandle
            /\ Types(sent') = << "server-stopped", "state" >>
            /\ ~sent'[2].state.serverRunning
            /\ last'.raised = NoError
            /\ cmds'[Len(cmds')].pc = "done"
            /\ \/ wsInstances' = wsInstances
               \/ Len(wsInstances') = Len(wsInstances) - 1 ]_vars

\* a running service was stopped and an instance is still live
C21_Witness ==
    /\ last.cmd > 0
    /\ Stepper.type = "stop-server"
    /\ Count(sent, "server-stopped") = 1
    /\ wssController = NoHandle
    /\ wsInstances # <<>>

\* ---- C22
\* C22: start-server received while no handle is held and the entry script
\* is absent (no installation, or an installation without it), and
\* start-web received while no static server is held and there is no
\* installation, send one error event with the command as context and
\* nothing else, and leave the process state as it was.
C22_StartWithoutInstallationFails ==
    [][ /\ (/\ Received("start-server")
            /\ wssController = NoHandle
            /\ slot \in {NoSlot, "bundleNoScript"}) =>
               /\ Types(sent') = << "error" >>
               /\ sent'[1].context = "start-server"
               /\ sent'[1].message = "server.js not found in resources"
               /\ cmds'[Len(cmds')].pc = "failed"
               /\ UNCHANGED process
        /\ (/\ Received("start-web")
            /\ staticServer = NoHandle
            /\ slot = NoSlot) =>
               /\ Types(sent') = << "error" >>
               /\ sent'[1].context = "start-web"
               /\ sent'[1].message = "Resources not downloaded"
               /\ cmds'[Len(cmds')].pc = "failed"
               /\ UNCHANGED process ]_vars

\* start-server failed for want of the entry script
C22_Witness ==
    /\ last.cmd > 0
    /\ Stepper.type = "start-server"
    /\ last.raised = Err("server.js not found in resources")
    /\ slot = NoSlot
    /\ wssController = NoHandle
    /\ staticServer = NoHandle

\* ---- C23
\* C23: get-state can be received in every state of the running process,
\* whatever other handlers are suspended; it sends one state event
\* carrying the state as it is and changes nothing of the process state.
C23_GetStateReadsOnly ==
    [][ /\ (alive /\ Len(cmds) < MaxCmds) => ENABLED GetState
        /\ Received("get-state") =>
             /\ Len(sent') = 1
             /\ sent'[1].type = "state"
             /\ sent'[1].state = stateSnapshot
             /\ stateSnapshot' = stateSnapshot
             /\ last'.raised = NoError
             /\ UNCHANGED process ]_vars

\* get-state was answered while a download was receiving its body
C23_Witness ==
    /\ last.cmd > 0
    /\ Stepper.type = "get-state"
    /\ Count(sent, "state") = 1
    /\ \E i \in InFlight : Streaming(i) /\ cmds[i].pc = "body"

\* ---- C25
\* C25: shutdown sends web-stopped when a static server was held, then
\* server-stopped and the state when a service handle was held, clears
\* both, raises nothing whether or not a close threw, and ends the
\* process; no step is taken once the process has ended.
C25_ShutdownStopsAndExits ==
    [][ /\ alive
        /\ Received("shutdown") =>
             /\ ~alive'
             /\ Types(sent') =
                   (IF staticServer # NoHandle THEN << "web-stopped" >> ELSE <<>>)
                   \o (IF wssController # NoHandle
                       THEN << "server-stopped", "state" >> ELSE <<>>)
             /\ staticServer' = NoHandle
             /\ staticServerPort' = NoPort
             /\ wssController' = NoHandle
             /\ last'.raised = NoError ]_vars

\* both services were held when shutdown ended the process
C25_Witness ==
    /\ ~alive
    /\ Stepper.type = "shutdown"
    /\ Types(sent) = << "web-stopped", "server-stopped", "state" >>

\* ---- C24
\* the message was normalized to set-resource-url with a locator
Reconfigures ==
    /\ data = Pending
    /\ data'.k = "obj"
    /\ Is(Get(data', "type"), "set-resource-url")
    /\ Get(data', "payload").k = "urlobj"
    /\ Get(data', "payload").url # ""

C26_LookupsNeverFail ==
    [][ \A i \in DOMAIN cmds :
          /\ (alive' /\ cmds[i].pc = "branch" /\ cmds'[i].pc # "branch") =>
               /\ cmds'[i].pc = "revision"
               /\ cmds'[i].branch \in {"main", "dev"}
               /\ cmds'[i].url =
                    "https://codeload.github.com/libnoname/noname/zip/refs/heads/"
                       \o cmds'[i].branch
               /\ cmds'[i].version = NULL
               /\ last' = Step(i, NoError)
               /\ sent' = <<>>
               /\ UNCHANGED process
          /\ (alive' /\ cmds[i].pc = "revision" /\ cmds'[i].pc # "revision") =>
               /\ cmds'[i].pc = "request"
               /\ cmds'[i].version \in {NULL, Sha}
               /\ currentConfig' = [currentConfig EXCEPT !.branch = cmds[i].branch]
               /\ last' = Step(i, NoError)
               /\ sent' = <<>> ]_vars

\* with no branch configured and both lookups failed, the request was
\* started for branch main with a null version
C26_Witness ==
    \E i \in DOMAIN cmds :
       /\ cmds[i].pc = "request"
       /\ cmds[i].version = NULL
       /\ last = Step(i, NoError)
       /\ currentConfig.resourceUrl = DEFAULT_REPO
       /\ currentConfig.branch = "main"
       /\ metadata = NoBranchDoc

\* ---- C28
\* C28: download-resources for the repository locator with a configured
\* branch goes straight to the revision lookup with that branch, the
\* default-branch endpoint not being queried; with none configured it
\* queries that endpoint first.  Whenever the revision lookup is pending,
\* the endpoint it queries and the artifact URL both carry the handler's
\* branch, which is not empty.
C28_BranchOrder ==
    [][ \A i \in DOMAIN cmds' :
          /\ (/\ Received("download-resources")
              /\ i = Len(cmds')
              /\ currentConfig.resourceUrl = DEFAULT_REPO) =>
                IF currentConfig.branch # ""
                THEN /\ cmds'[i].pc = "revision"
                     /\ cmds'[i].branch = currentConfig.branch
                ELSE /\ cmds'[i].pc = "branch"
                     /\ cmds'[i].api = "https://api.github.com/repos/libnoname/noname"
          /\ (cmds'[i].pc = "branch" /\ i \in DOMAIN cmds /\ cmds[i].pc # "branch") =>
                FALSE
          /\ cmds'[i].pc = "revision" =>
                /\ cmds'[i].branch \notin {"", NULL}
                /\ cmds'[i].url =
                     "https://codeload.github.com/libnoname/noname/zip/refs/heads/"
                        \o cmds'[i].branch
                /\ cmds'[i].api =
                     "https://api.github.com/repos/libnoname/noname/commits/"
                        \o cmds'[i].branch ]_vars

\* the branch the endpoint returned is the one of the pending revision
\* lookup, no branch being configured
C28_Witness ==
    \E i \in DOMAIN cmds :
       /\ cmds[i].pc = "revision"
       /\ cmds[i].branch = "dev"
       /\ currentConfig.branch = ""
       /\ last = Step(i, NoError)

\* ---- C29
\* C29: download-resources for a locator that is no repository reference
\* starts no lookup: in the same step the configured branch becomes the
\* one it was, or "main" when it was empty, the version obtained is null,
\* and the download is started on the locator itself, failing at once
\* exactly when the locator is no URL.
C29_DirectLocator ==
    [][ (/\ Received("download-resources")
         /\ currentConfig.resourceUrl \in {PlainUrl, BadUrl}) =>
           LET frame == cmds'[Len(cmds')]
           IN  /\ frame.pc \in {"request", "failed"}
               /\ frame.pc = "failed" <=> currentConfig.resourceUrl = BadUrl
               /\ frame.pc = "failed" =>
                    /\ Types(sent') = << "download-started", "error" >>
                    /\ sent'[2].message = "Invalid URL"
               /\ frame.pc = "request" => Types(sent') = << "download-started" >>
               /\ frame.api = NULL
               /\ frame.version = NULL
               /\ currentConfig' =
                    [currentConfig EXCEPT
                       !.branch = IF currentConfig.branch # ""
                                  THEN currentConfig.branch ELSE "main"] ]_vars

\* a download of a plain URL started with the empty branch replaced by main
C29_Witness ==
    /\ last.cmd > 0
    /\ Stepper.type = "download-resources"
    /\ Stepper.pc = "request"
    /\ Types(sent) = << "download-started" >>
    /\ currentConfig.resourceUrl = PlainUrl
    /\ currentConfig.branch = "main"
    /\ metadata = NoBranchDoc

\* ---- C30
\* C30: a redirect is taken only while the request is pending, before any
\* byte was received; it removes the file opened for the hop and opens a
\* new, empty one for the next request of the same handler, sends nothing
\* and raises nothing, and leaves the handler as a download that has just
\* started its request.
C30_RedirectDiscardsHop ==
    [][ \A i \in DOMAIN cmds :
          (alive' /\ cmds'[i].hop > cmds[i].hop) =>
             /\ cmds[i].pc = "request"
             /\ cmds[i].downloaded = 0
             /\ cmds'[i] = [cmds[i] EXCEPT !.hop = @ + 1, !.ino = archive'.ino]
             /\ archive'.st = "empty"
             /\ archive'.kind = NULL
             /\ archive'.by = i
             /\ archive'.ino # cmds[i].ino
             /\ sent' = <<>>
             /\ last' = Step(i, NoError)
             /\ UNCHANGED <<currentConfig, metadata, slot, scratch>> ]_vars

\* after a redirect the whole body of the target is in the file opened for
\* the target
C30_Witness ==
    \E i \in DOMAIN cmds :
       /\ cmds[i].pc = "closing"
       /\ cmds[i].ino = << i, 1 >>
       /\ archive.st = "complete"
       /\ archive.ino = << i, 1 >>
       /\ archive.by = i

\* ---- C27
\* C27: the progress shown is {0, 0} once a download has started and
\* nothing once download-complete was handled.  Each download-progress
\* event of a download carries a byte count greater than the one before it
\* in that download (counted from zero) and the total fixed when the
\* response arrived, which is the content length or 0 when there is none;
\* the progress shown after it is that pair.
C27_ProgressPerDownload ==
    [][ /\ \A k \in DOMAIN sent' :
             sent'[k].type = "download-progress" =>
                LET i == sent'[k].by
                IN  /\ cmds[i].pc = "body"
                    /\ cmds'[i].pc = "body"
                    /\ sent'[k].downloaded > cmds[i].downloaded
                    /\ sent'[k].downloaded = cmds'[i].downloaded
                    /\ sent'[k].total = cmds[i].total
                    /\ sent'[k].total \in {0, MaxParts}
                    /\ progress' = << sent'[k].downloaded, sent'[k].total >>
        /\ \A i \in DOMAIN cmds :
             /\ (cmds[i].pc = "body" /\ cmds'[i].pc = "body") =>
                  /\ cmds'[i].total = cmds[i].total
                  /\ cmds'[i].downloaded >= cmds[i].downloaded
             /\ (cmds[i].pc # "body" /\ cmds'[i].pc = "body") =>
                  cmds'[i].downloaded = 0
        /\ Received("download-resources") =>
             /\ sent'[1].type = "download-started"
             /\ Len(sent') = 1 => progress' = << 0, 0 >>
        /\ Count(sent', "download-complete") > 0 => progress' = NoProgress ]_vars

\* two progress events of one download of unknown length were handled
C27_Witness ==
    \E i \in DOMAIN cmds :
       /\ cmds[i].pc = "body"
       /\ sentBy[i] = << "download-started", "download-progress", "download-progress" >>
       /\ progress = << 2, 0 >>

\* ---- C31
\* C31, as claimed: whenever web-started is sent, the listener of the static
\* server held is bound.
C31_WebStartedMeansBound ==
    Count(sent, "web-started") > 0 =>
        /\ staticServer # NoHandle
        /\ httpServers[staticServer] = "bound"

\* ---- C32
\* C32, as claimed: once set-resource-url has set the locator and the branch
\* while a download is in flight, the step that follows leaves both as they
\* were set, unless it is another set-resource-url.
C32_ReconfigurationSurvives ==
    [][ (/\ \E i \in DOMAIN cmds :
               /\ i < last.cmd
               /\ cmds[i].type = "download-resources"
               /\ ~Settled(cmds[i])
         /\ last.cmd > 0
         /\ Stepper.type = "set-resource-url"
         /\ Types(sent) = << "state" >>
         /\ currentConfig.branch = "dev"
         /\ ~Received("set-resource-url")) =>
            /\ currentConfig'.resourceUrl = currentConfig.resourceUrl
            /\ currentConfig'.branch = currentConfig.branch ]_vars

\* ---- C33
\* the download handler i is in flight
Downloading(i) ==
    i \in DOMAIN cmds /\ cmds[i].type = "download-resources" /\ ~Settled(cmds[i])

\* the download handler i has just sent its terminal event
Ended(i) ==
    /\ i \in DOMAIN cmds
    /\ cmds[i].type = "download-resources"
    /\ Settled(cmds[i])
    /\ Count(sent, "download-complete") + Count(sent, "error") = 1

\* C33, as claimed: when every handler's pending step is eventually taken,
\* every download in flight eventually sends its terminal event.
C33_EveryDownloadEnds ==
    \A i \in 1..MaxDownloads : Downloading(i) ~> Ended(i)

\* ---- C34
\* C34, as claimed: a stop-server that closes the service it holds leaves no
\* instance the entry script constructed unclosed.
C34_StopClosesEveryInstance ==
    [][ (/\ Received("stop-server")
         /\ wssController # NoHandle
         /\ Len(wsInstances') < Len(wsInstances)) =>
            wsInstances' = <<>> ]_vars

\* ---- C35
\* C35: when the stream of a download is closed, its handler goes on to
\* unpack, and the archive is not
\* readable (incomplete, gone or no zip) or holds no entry, the handler
\* fails with one error event of context download-resources and the slot
\* stays exactly as it was, as does the configuration.
C35_BadArchiveKeepsSlot ==
    [][ \A i \in DOMAIN cmds :
          (/\ cmds[i].pc = "closing"
           /\ cmds'[i].pc # "closing"
           /\ last'.cmd = i
           /\ \/ archive.st # "complete"
              \/ archive.kind \in {"zipBad", "zipEmpty"}) =>
             /\ cmds'[i].pc = "failed"
             /\ Types(sent') = << "error" >>
             /\ sent'[1].context = "download-resources"
             /\ sent'[1].message \in {"Invalid or unsupported zip format",
                                      "Archive did not contain any files"}
             /\ slot' = slot
             /\ stateSnapshot'.hasResources = stateSnapshot.hasResources
             /\ UNCHANGED <<currentConfig, metadata>> ]_vars

\* an update failed on an archive without entries and the installation it
\* was to replace is still there
C35_Witness ==
    /\ last.cmd > 0
    /\ Stepper.type = "download-resources"
    /\ last.raised = Err("Archive did not contain any files")
    /\ slot = "bundleA"
    /\ stateSnapshot.hasResources

\* ---- C36
\* C36: the slot is replaced in one step: an existing slot is seen absent
\* by no later step unless the move of a new root into it failed, and every
\* state sent reports hasResources as the slot is when it is sent; so does
\* every start-web and start-server check.
C36_SwapIsOneStep ==
    [][ /\ (slot # NoSlot /\ slot' = NoSlot) => last'.raised = Err("rename failed")
        /\ \A k \in DOMAIN sent' :
             sent'[k].state # NoState =>
                sent'[k].state.hasResources = (slot' # NoSlot)
        /\ (Received("start-web") /\ slot # NoSlot) =>
             last'.raised # Err("Resources not downloaded")
        /\ (Received("start-server") /\ slot = "bundleA") =>
             last'.raised # Err("server.js not found in resources") ]_vars

\* after an install that replaced the slot, get-state reports resources
C36_Witness ==
    /\ last.cmd > 0
    /\ Stepper.type = "get-state"
    /\ Count(sent, "state") = 1
    /\ sent[1].state.hasResources
    /\ sent[1].state.version = Sha

\* ---- C37
\* C37, as claimed: no step of a download handler changes the handle of the
\* script service, the static server held or its port.
C37_DownloadLeavesServices ==
    [][ (\/ Received("download-resources")
         \/ /\ Len(cmds') = Len(cmds)
            /\ last'.cmd > 0
            /\ cmds[last'.cmd].type = "download-resources") =>
           UNCHANGED <<wssController, staticServer, staticServerPort>> ]_vars

\* ---- C38
\* C38, as claimed: once every handler has returned and every event sent
\* has been delivered, the mirror's serverRunning and webServerPort are
\* those of the process.
C38_MirrorTracks ==
    (\A i \in DOMAIN cmds : cmds[i].pc \in {"done", "failed"}) =>
        /\ mirror.serverRunning = stateSnapshot.serverRunning
        /\ mirror.webServerPort = stateSnapshot.webServerPort

\* ---- C39
\* C39: bridge.start is called at most once; the callers that await one
\* start settle together, resolved only when the controller has started and
\* rejected only when that start failed; and a call made once started is
\* true returns resolved and starts nothing.
C39_StartRunsOnce ==
    [][ /\ ctl'.starts <= 1
        /\ \A k \in DOMAIN ctl'.calls :
              /\ ctl'.calls[k].state = "resolved" => ctl'.started
              /\ ctl'.calls[k].run # 0 =>
                    ctl'.calls[k].state = Awaited(ctl'.runs[ctl'.calls[k].run])
        /\ (\A r \in DOMAIN ctl.runs : ctl.runs[r] \in {"pending", "ready"})
              /\ Len(ctl'.calls) > Len(ctl.calls)
              => Len(ctl'.runs) <= 1
        /\ ctl.started /\ Len(ctl'.calls) > Len(ctl.calls)
              => /\ ctl'.calls[Len(ctl'.calls)] = [run |-> 0, state |-> "resolved"]
                 /\ ctl'.runs = ctl.runs
                 /\ ctl'.starts = ctl.starts
                 /\ ctl'.handlers = ctl.handlers
                 /\ ctl'.bridgePromise = ctl.bridgePromise ]_vars

\* three calls before the bridge was there, one start, all three resolved
C39_Witness ==
    /\ Len(ctl.calls) = MaxCalls
    /\ \A k \in DOMAIN ctl.calls : ctl.calls[k] = [run |-> 1, state |-> "resolved"]
    /\ ctl.bridgePromise = "fulfilled"
    /\ ctl.starts = 1

\* ---- C40
\* C40: the handler is registered on the channel at most once, so a message
\* reaches the listener at most once; a start that failed leaves started
\* false, and a call of ensureStarted made after it begins a new start.
C40_HandlerOnceRetryAllowed ==
    [][ /\ ctl'.handlers <= 1
        /\ ctl'.delivered <= 1
        /\ (\E r \in DOMAIN ctl.runs : ctl.runs[r] = "failing" /\ ctl'.runs[r] = "failed")
              => ~ctl'.started
        /\ ctl.runs # <<>>
              /\ (\A r \in DOMAIN ctl.runs : ctl.runs[r] = "failed")
              /\ Len(ctl'.calls) > Len(ctl.calls)
              => /\ Len(ctl'.runs) = Len(ctl.runs) + 1
                 /\ ctl'.calls[Len(ctl'.calls)].state = "waiting" ]_vars

\* a start failed, the retry succeeded, and a message was delivered once
C40_Witness ==
    /\ Len(ctl.runs) = 2
    /\ ctl.runs[1] = "failed"
    /\ ctl.runs[2] = "done"
    /\ ctl.handlers = 1
    /\ ctl.delivered = 1
====
